---- MODULE Spec2Model ----
(***************************************************************************)
(* Performance analysis engine of AI_CORE: the pitch-accuracy analyser,    *)
(* the vibrato detector and the report generator of performance.py, the    *)
(* baseline scorer of scorer.py and the contour aligner of karaoke_app.py. *)
(*                                                                         *)
(* Numbers.  The code computes in float64; the model computes in integers: *)
(*   - a frequency is held in hundredths of a hertz (Hz(440) = 44000);     *)
(*   - a time is held in milliseconds;                                     *)
(*   - a score, a percentage and a ratio are held in ten-thousandths       *)
(*     (Pts(100) = 1000000 is the score 100.0, Pts(1) is the ratio 1.0).   *)
(* A quotient is rounded down to that resolution once, at the end of the   *)
(* expression that computes it; comparisons against thresholds are made on *)
(* the exact rational wherever the code compares.  NaN is a value of its   *)
(* own, never a number.                                                    *)
(***************************************************************************)
EXTENDS Integers, Sequences, FiniteSets, TLC

VARIABLES
    pitch_tolerance_cents,  \* PerformanceAnalyzer.pitch_tolerance_cents
    vibrato_freq_range,     \* PerformanceAnalyzer.vibrato_freq_range
    min_vibrato_depth,      \* PerformanceAnalyzer.min_vibrato_depth
    user_pitch,             \* the user contour handed to a call
    user_time,              \* its time grid
    target_pitch,           \* the reference contour
    target_time,            \* its time grid (the report's time axis)
    result,                 \* what the last call returned or raised
    seen,                   \* history: the outcomes each analysis call has had
    app,                    \* KaraokeApp: current_session, current_song, user_audio,
                            \* and whether target_pitch is set (is not None)
    session_manager,        \* SessionManager: current_session, sessions
    heap,                   \* the KaraokeSession objects created so far
    storage,                \* the session files under storage_dir
    clock,                  \* datetime.now(), in whole seconds
    recorder,               \* RealTimeRecorder: is_recording, stream, audio_queue
    delivered,              \* history: the chunks the input device has delivered
    audio_buffer,           \* AudioBuffer: max_samples, buffer, write_pos, lock
    writer,                 \* the thread in AudioBuffer.write
    reader,                 \* the thread in AudioBuffer.read
    written                 \* history: the samples of the writes that completed

vars == <<pitch_tolerance_cents, vibrato_freq_range, min_vibrato_depth,
          user_pitch, user_time, target_pitch, target_time, result, seen,
          app, session_manager, heap, storage, clock,
          recorder, delivered, audio_buffer, writer, reader, written>>

config == <<pitch_tolerance_cents, vibrato_freq_range, min_vibrato_depth>>

inputs == <<user_pitch, user_time, target_pitch, target_time>>

\* the objects the analysis calls have no reference to
capture == <<recorder, delivered, audio_buffer, writer, reader, written>>

objects == <<app, session_manager, heap, storage, clock, capture>>

-----------------------------------------------------------------------------
(* Units and values *)

Hz(h) == 100 * h

Pts(p) == 10000 * p

NaN == [nan |-> TRUE, v |-> 0]

Num(x) == [nan |-> FALSE, v |-> x]

isnan(x) == x.nan

Abs(x) == IF x < 0 THEN 0 - x ELSE x

Min(a, b) == IF a < b THEN a ELSE b

Max(a, b) == IF a > b THEN a ELSE b

RECURSIVE SumRange(_, _, _)
\* s[lo] + ... + s[hi], by halves
SumRange(s, lo, hi) ==
    IF lo > hi THEN 0
    ELSE IF lo = hi THEN s[lo]
    ELSE SumRange(s, lo, (lo + hi) \div 2) + SumRange(s, (lo + hi) \div 2 + 1, hi)

Sum(s) == SumRange(s, 1, Len(s))

\* the sequence s as a tuple of its entries, each computed once
Array(s) == <<>> \o s

RECURSIVE IsqrtIn(_, _, _)
IsqrtIn(x, lo, hi) ==
    IF lo >= hi THEN lo
    ELSE LET mid == (lo + hi + 1) \div 2
         IN IF mid * mid <= x THEN IsqrtIn(x, mid, hi) ELSE IsqrtIn(x, lo, mid - 1)

\* floor(sqrt(x)) for 0 <= x < 2^31
Isqrt(x) == IsqrtIn(x, 0, 46340)

\* sqrt(x) in hundredths, rounded down
SqrtFix(x) == IF x <= 200000 THEN Isqrt(x * 10000) ELSE 100 * Isqrt(x)

\* hi / lo < 1 + k / 10^6, decided exactly, for 0 < lo and 0 <= k <= 10^6
RatioBelow(hi, lo, k) ==
    IF hi <= lo THEN TRUE
    ELSE IF hi >= 2 * lo THEN FALSE
    ELSE LET a == (hi - lo) * 1000 - lo * (k \div 1000)
         IN IF a <= 0 THEN (a < 0 \/ (k % 1000) > 0)
            ELSE IF a >= lo THEN FALSE
            ELSE a * 1000 < lo * (k % 1000)

\* 2^(c/1200) - 1 in millionths, for the cents values the analyser is built with
Pow2Cents(c) ==
    CASE c = 100 -> 59463
      [] c = 30 -> 17479
      [] c = 1200 -> 1000000

\* abs(1200 * log2(a / b)) <= c: the comparison with the tolerance included.
\* The error of a ratio of frequencies equals c only where 2^(c/1200) is rational.
CentsAtMost(a, b, c) ==
    IF a <= 0 \/ b <= 0 THEN FALSE
    ELSE \/ RatioBelow(Max(a, b), Min(a, b), Pow2Cents(c))
         \/ Pow2Cents(c) = 1000000 /\ Max(a, b) = 2 * Min(a, b)

\* abs(1200 * log2(a / b)) < c.  log2 of a ratio that is not positive is
\* -inf or NaN, and neither is below c.
CentsBelow(a, b, c) ==
    IF a <= 0 \/ b <= 0 THEN FALSE
    ELSE RatioBelow(Max(a, b), Min(a, b), Pow2Cents(c))

-----------------------------------------------------------------------------
(* numpy *)

Returned(v) == [status |-> "returned", value |-> v]

Raised(e) == [status |-> "raised", error |-> e]

\* shapes (m,) and (n,) broadcast together
Broadcastable(m, n) == m = n \/ m = 1 \/ n = 1

BroadcastLen(m, n) == IF m = 1 THEN n ELSE m

Bcast(a, i) == IF Len(a) = 1 THEN a[1] ELSE a[i]

\* ~np.isnan(a) & ~np.isnan(b)
ValidMask(a, b) ==
    [i \in 1..BroadcastLen(Len(a), Len(b)) |->
        ~isnan(Bcast(a, i)) /\ ~isnan(Bcast(b, i))]

CountTrue(m) == Cardinality({i \in 1..Len(m) : m[i]})

RECURSIVE CompressRange(_, _, _, _)
CompressRange(a, m, lo, hi) ==
    IF lo > hi THEN <<>>
    ELSE IF lo = hi THEN (IF m[lo] THEN <<a[lo]>> ELSE <<>>)
    ELSE CompressRange(a, m, lo, (lo + hi) \div 2)
           \o CompressRange(a, m, (lo + hi) \div 2 + 1, hi)

\* a[m] for a boolean mask m of a's length
Compress(a, m) == CompressRange(a, m, 1, Min(Len(a), Len(m)))

-----------------------------------------------------------------------------
(* performance.py: PerformanceAnalyzer.analyze_pitch_accuracy *)

PitchMetrics(mean, std, acc, stab, voiced, total) ==
    [mean_error_hz |-> mean, std_error_hz |-> std, accuracy |-> acc,
     stability |-> stab, voiced_frames |-> voiced, total_frames |-> total]

\* np.abs(user_valid - target_valid)
ErrorHz(u, t) == Array([i \in 1..Len(u) |-> Abs(u[i].v - t[i].v)])

\* np.sum(error_cents < tolerance)
WithinTolerance(u, t, tol) ==
    Cardinality({i \in 1..Len(u) : CentsBelow(u[i].v, t[i].v, tol)})

\* n^2 times the population variance of e, np.std(e)^2 = mean((e - mean(e))^2).
\* The variance of e is the variance of e - c for any c; the model takes c next
\* to the mean, as numpy does, which keeps the squares small.
VarSum(e) ==
    IF Len(e) = 0 THEN 0
    ELSE LET c == Sum(e) \div Len(e)
             d == Array([i \in 1..Len(e) |-> e[i] - c])
         IN Len(e) * Sum([i \in 1..Len(e) |-> d[i] * d[i]]) - Sum(d) * Sum(d)

\* np.std(e) / (np.mean(e) + 1e-6), in ten-thousandths.  std/mean is
\* sqrt(VarSum)/Sum.  The guard 1e-6 Hz is below the model's resolution: it
\* decides the quotient only when every error is 0, where it makes it 0/1e-6 = 0.
Variation(e) ==
    IF VarSum(e) = 0 THEN 0 ELSE (SqrtFix(VarSum(e)) * 100) \div Sum(e)

\* the stability that takes the variation of an all-zero error as unbounded
\* (std / mean without the guard 1e-6), and so maps it to 0
StabilityUnguarded(e) ==
    IF Sum(e) = 0 THEN 0 ELSE (Pts(1) * Pts(1)) \div (Pts(1) + Variation(e))

\* 1.0 / (1.0 + variation)
Stability(e) == (Pts(1) * Pts(1)) \div (Pts(1) + Variation(e))

\* int(np.sum(mask)), with len(mask) in its place
VoicedFramesOfLen(mask) == Len(mask)

\* int(np.sum(mask))
VoicedFrames(mask) == CountTrue(mask)

\* the degenerate metrics with zeros in place of the NaN error fields
DegenerateZeros(user) == PitchMetrics(Num(0), Num(0), 0, 0, 0, Len(user))

\* the metrics returned when the mask selects no frame
Degenerate(user) == PitchMetrics(NaN, NaN, 0, 0, 0, Len(user))

analyze_pitch_accuracy(user, target, tol) ==
    IF ~Broadcastable(Len(user), Len(target)) THEN Raised("ValueError")
    ELSE LET mask == ValidMask(user, target)
         IN IF CountTrue(mask) = 0
            THEN Returned(Degenerate(user))
            ELSE IF Len(mask) # Len(user) \/ Len(mask) # Len(target)
            THEN Raised("IndexError")
            ELSE LET user_valid == Compress(user, mask)
                     target_valid == Compress(target, mask)
                     error_hz == ErrorHz(user_valid, target_valid)
                     n == Len(error_hz)
                 IN Returned(PitchMetrics(
                        Num(Sum(error_hz) \div n),
                        Num(Isqrt(VarSum(error_hz)) \div n),
                        (Pts(100) * WithinTolerance(user_valid, target_valid, tol)) \div n,
                        Stability(error_hz),
                        VoicedFrames(mask),
                        Len(user)))

-----------------------------------------------------------------------------
(* performance.py: PerformanceAnalyzer.detect_vibrato *)

MinVibratoFrames == 100

SavgolWindow == 51

MinMaxLag == 10

PeakHeightPercent == 30

None == [none |-> TRUE]

PosInf == [nan |-> FALSE, inf |-> TRUE, v |-> 0]

VibratoMetrics(detected, freq, depth, coverage) ==
    [detected |-> detected, frequency_hz |-> freq, depth_cents |-> depth,
     coverage |-> coverage]

\* a rejection that reports zeros for the frequency and the depth
NotDetectedWithZeros == VibratoMetrics(FALSE, Num(0), Num(0), 0)

\* VibratoMetrics(detected=False)
NotDetected == VibratoMetrics(FALSE, None, None, 0)

\* scipy.signal.savgol_filter(x, w, polyorder=3) away from the ends: the cubic
\* least-squares fit over the window centred on the sample, whose value at the
\* centre is sum_j c_j x[i+j] with c_j = 3(3m^2+3m-1-5j^2) / ((2m-1)(2m+1)(2m+3)),
\* m = w \div 2.  The c_j sum to 1, so the sum is taken over x[i+j] - x[i].
SavgolCoeff(m, j) == 3 * (3 * m * m + 3 * m - 1 - 5 * j * j)

SavgolDen(m) == (2 * m - 1) * (2 * m + 1) * (2 * m + 3)

\* Within m samples of an end scipy evaluates the cubic fitted to the outermost
\* window; the model runs the same kernel over the contour extended by its end
\* values.
Extended(x, i) == x[Max(1, Min(Len(x), i))]

\* savgol_filter raises when the window is longer than the data, and the code
\* then keeps the contour as it is (except Exception: smoothed = valid_pitch).
savgol_filter(x, w) ==
    IF w > Len(x) \/ w <= 3 THEN x
    ELSE LET m == w \div 2
             c == Array([j \in 1..w |-> SavgolCoeff(m, j - m - 1)])
         IN Array([i \in 1..Len(x) |->
                     x[i] + Sum([j \in 1..w |->
                                   c[j] * (Extended(x, i + j - m - 1) - x[i])])
                              \div SavgolDen(m)])

\* np.correlate(r, r, mode='full')[len // 2:] at lag k
Autocorr(r, k) == Sum([i \in 1..(Len(r) - k) |-> r[i] * r[i + k]])

\* scipy.signal.find_peaks(a): index p (from 0) is a peak when it is the middle
\* of a flat stretch left..right with a lower sample on either side; the first
\* and the last sample are never peaks.  a[p + 1] holds the sample of index p.
IsLocalMax(a, p) ==
    \E left \in 1..p, right \in p..(Len(a) - 2) :
        /\ (left + right) \div 2 = p
        /\ \A q \in left..right : a[q + 1] = a[p + 1]
        /\ a[left] < a[left + 1]
        /\ a[right + 2] < a[right + 1]

\* find_peaks(autocorr[:max_lag], height=0.3) over autocorr / autocorr[0]; a is
\* the autocorrelation before the division.  With autocorr[0] = 0 every
\* quotient is NaN and nothing is a peak.
Peaks(a) ==
    IF a[1] = 0 THEN {}
    ELSE {p \in 1..(Len(a) - 2) :
            IsLocalMax(a, p) /\ 100 * a[p + 1] >= PeakHeightPercent * a[1]}

SetMin(S) == CHOOSE x \in S : \A y \in S : x <= y

SetMax(S) == CHOOSE x \in S : \A y \in S : x >= y

\* 2^(s/12) - 1 in millionths, s = 1..11
SemitoneRatio(s) ==
    <<59463, 122462, 189207, 259921, 334839, 414213, 498307, 587401,
      681792, 781797, 887748>>[s]

RECURSIVE Octaves(_, _)
Octaves(hi, lo) == IF hi < 2 * lo THEN 0 ELSE 1 + Octaves(hi, 2 * lo)

RECURSIVE Doubled(_, _)
Doubled(x, n) == IF n = 0 THEN x ELSE Doubled(2 * x, n - 1)

\* abs(1200 * log2(a / b)), rounded down to a whole semitone; log2(0) is -inf
\* and log2 of a negative ratio is NaN.
AbsCents(a, b) ==
    IF a = 0 /\ b # 0 THEN PosInf
    ELSE IF b = 0 \/ (a < 0) # (b < 0) THEN NaN
    ELSE LET f == Max(Abs(a), Abs(b)) \div 1000000 + 1
             hi == Max(Abs(a), Abs(b)) \div f
             lo == Max(1, Min(Abs(a), Abs(b)) \div f)
             oct == Octaves(hi, lo)
             low == Doubled(lo, oct)
         IN Num(1200 * oct
                + 100 * Cardinality({s \in 1..11 : ~RatioBelow(hi, low, SemitoneRatio(s))}))

\* abs(vibrato_depth) < min_vibrato_depth
DepthBelow(a, b, c) ==
    IF isnan(AbsCents(a, b)) \/ AbsCents(a, b) = PosInf THEN FALSE
    ELSE CentsBelow(Abs(a), Abs(b), c)

\* int(0.5 * len(residual))
MaxLag(n) == n \div 2

\* the frame gate with the limit itself refused: np.sum(mask) <= 100
TooFewFramesInclusive(n) == n <= MinVibratoFrames

\* np.sum(mask) < 100
TooFewFrames(n) == n < MinVibratoFrames

detect_vibrato(pitch, time, freq_range, min_depth) ==
    LET mask == [i \in 1..Len(pitch) |-> ~isnan(pitch[i])]
    IN IF TooFewFrames(CountTrue(mask)) THEN Returned(NotDetected)
       ELSE IF Len(time) # Len(pitch) THEN Raised("IndexError")
       ELSE
       LET valid == Compress(pitch, mask)
           n == Len(valid)
           valid_pitch == Array([i \in 1..n |-> valid[i].v])
           valid_time == Compress(time, mask)
           smoothed == savgol_filter(valid_pitch, Min(SavgolWindow, (n \div 2) * 2 + 1))
           residual == Array([i \in 1..n |-> valid_pitch[i] - smoothed[i]])
           max_lag == MaxLag(n)
           mean_residual == Sum(residual) \div n
           centred == Array([i \in 1..n |-> residual[i] - mean_residual])
           autocorr == Array([k \in 1..max_lag |-> Autocorr(centred, k - 1)])
           peaks == Peaks(autocorr)
           best_lag == SetMin(peaks)
           span == valid_time[n] - valid_time[1]
           max_residual == SetMax({residual[i] : i \in 1..n})
           sum_smoothed == Sum(smoothed)
           sigma == Isqrt(VarSum(residual))
       IN IF max_lag < MinMaxLag THEN Returned(NotDetected)
          ELSE IF peaks = {} THEN Returned(NotDetected)
          \* sr = 1 / mean(diff(valid_time)) = 1000 (n - 1) / span hertz, and
          \* vibrato_freq = sr / best_lag; span = 0 makes it inf
          ELSE IF span <= 0 THEN Returned(NotDetected)
          ELSE IF ~(/\ freq_range[1] * span * best_lag <= 1000 * (n - 1)
                    /\ 1000 * (n - 1) <= freq_range[2] * span * best_lag)
          THEN Returned(NotDetected)
          ELSE IF DepthBelow(max_residual * n, sum_smoothed, min_depth)
          THEN Returned(NotDetected)
          ELSE Returned(VibratoMetrics(
                   TRUE,
                   Num((Hz(1000) * (n - 1)) \div (span * best_lag)),
                   AbsCents(max_residual * n, sum_smoothed),
                   (Pts(100) * Cardinality({i \in 1..n : Abs(residual[i]) * n > sigma}))
                       \div n))

-----------------------------------------------------------------------------
(* scorer.py: Scorer.score_pitch *)

\* 100 - np.mean(diff), the whole mean error taken off instead of half of it
RawScoreWholeError(diff) == (Pts(100) * Len(diff) - 100 * Sum(diff)) \div Len(diff)

\* 100 - np.mean(diff) * 0.5
RawScore(diff) == (Pts(100) * Len(diff) - 50 * Sum(diff)) \div Len(diff)

\* a shape check that rejects only a user contour longer than the target
ShapeMismatchUserLonger(user, target) == Len(user) > Len(target)

\* user_pitch.shape != target_pitch.shape
ShapeMismatch(user, target) == Len(user) # Len(target)

score_pitch(user, target) ==
    IF ShapeMismatch(user, target) THEN Raised("ValueError")
    ELSE LET mask == ValidMask(user, target)
             diff == ErrorHz(Compress(user, mask), Compress(target, mask))
         IN IF Len(diff) = 0 THEN Returned(0)
            ELSE Returned(Max(0, Min(Pts(100), RawScore(diff))))

-----------------------------------------------------------------------------
(* performance.py: PerformanceAnalyzer._generate_feedback, generate_report *)

AccuracyNote(accuracy) ==
    IF accuracy >= Pts(80) THEN "Excellent pitch accuracy!"
    ELSE IF accuracy >= Pts(60)
    THEN "Good pitch accuracy. Try to stay closer to the target."
    ELSE IF accuracy >= Pts(40)
    THEN "Fair pitch accuracy. Focus on hitting the right notes."
    ELSE "Pitch accuracy needs improvement. Listen carefully to the backing track."

\* the stability note with exclusive lower bounds (> 0.8, > 0.5)
StabilityNoteExclusive(stability) ==
    IF 10 * stability > Pts(8) THEN "Great pitch stability!"
    ELSE IF 10 * stability > Pts(5)
    THEN "Good stability. Try to reduce pitch wavering."
    ELSE "Work on maintaining stable pitch."

StabilityNote(stability) ==
    IF 10 * stability >= Pts(8) THEN "Great pitch stability!"
    ELSE IF 10 * stability >= Pts(5)
    THEN "Good stability. Try to reduce pitch wavering."
    ELSE "Work on maintaining stable pitch."

OverallNote(score) ==
    IF score >= Pts(90) THEN "Outstanding performance!"
    ELSE IF score >= Pts(75) THEN "Great job! Keep it up!"
    ELSE IF score >= Pts(60) THEN "Good effort! Practice more to improve."
    ELSE "Keep practicing! You'll improve with time."

\* f"{x:.1f}" of a value held in hundredths: the value in tenths, to the nearest
Format1(x) == IF isnan(x) \/ x = PosInf THEN x ELSE Num((x.v + 5) \div 10)

\* f"Nice vibrato detected! ({frequency_hz:.1f} Hz, {depth_cents:.0f} cents)"
VibratoNote(vm) ==
    <<"Nice vibrato detected!", Format1(vm.frequency_hz), "Hz", vm.depth_cents, "cents">>

\* the feedback without the vibrato note
FeedbackWithoutVibrato(pitch_metrics, vibrato_metrics, score) ==
    [k \in {"pitch_accuracy", "stability", "overall"} |->
        CASE k = "pitch_accuracy" -> <<AccuracyNote(pitch_metrics.accuracy)>>
          [] k = "stability" -> <<StabilityNote(pitch_metrics.stability)>>
          [] k = "overall" -> <<OverallNote(score)>>]

generate_feedback(pitch_metrics, vibrato_metrics, score) ==
    [k \in {"pitch_accuracy", "stability", "overall"}
            \cup (IF vibrato_metrics.detected THEN {"vibrato"} ELSE {}) |->
        CASE k = "pitch_accuracy" -> <<AccuracyNote(pitch_metrics.accuracy)>>
          [] k = "stability" -> <<StabilityNote(pitch_metrics.stability)>>
          [] k = "vibrato" -> VibratoNote(vibrato_metrics)
          [] k = "overall" -> <<OverallNote(score)>>]

NoScorer == [kind |-> "None"]

TheScorer == [kind |-> "Scorer"]

\* the vibrato bonus granted whether or not vibrato was detected
VibratoBonusAlways(vibrato_metrics) == Pts(5)

\* 5.0 if vibrato_metrics.detected else 0.0
VibratoBonus(vibrato_metrics) == IF vibrato_metrics.detected THEN Pts(5) ELSE 0

\* pitch_metrics.stability * 10.0
StabilityBonus(pitch_metrics) == pitch_metrics.stability * 10

\* the clamp without its ceiling: max(0.0, x)
ClampNoCeiling(x) == Max(0, x)

\* max(0.0, min(100.0, x))
Clamp(x) == Max(0, Min(Pts(100), x))

ScoreReport(total, pm, vm, duration, notes) ==
    [total_score |-> total, pitch_metrics |-> pm, vibrato_metrics |-> vm,
     duration |-> duration, notes |-> notes]

\* time[-1] - time[0] without the guard: indexing an empty array raises
DurationUnguarded(time) ==
    IF Len(time) > 0 THEN Returned(time[Len(time)] - time[1]) ELSE Raised("IndexError")

\* time[-1] - time[0] if len(time) > 0 else 0.0
Duration(time) ==
    IF Len(time) > 0 THEN Returned(time[Len(time)] - time[1]) ELSE Returned(0)

generate_report(user, target, time, sc, tol, freq_range, min_depth) ==
    LET analysed == analyze_pitch_accuracy(user, target, tol)
        vibrato == detect_vibrato(user, time, freq_range, min_depth)
        scored == IF sc = NoScorer THEN Returned(analysed.value.accuracy)
                  ELSE score_pitch(user, target)
        duration == Duration(time)
    IN IF analysed.status = "raised" THEN analysed
       ELSE IF vibrato.status = "raised" THEN vibrato
       ELSE IF scored.status = "raised" THEN scored
       ELSE IF duration.status = "raised" THEN duration
       ELSE LET pm == analysed.value
                vm == vibrato.value
                total_score == Clamp(scored.value + VibratoBonus(vm) + StabilityBonus(pm))
            IN Returned(ScoreReport(
                   total_score, pm, vm, duration.value,
                   generate_feedback(pm, vm, total_score)))

-----------------------------------------------------------------------------
(* karaoke_app.py: KaraokeApp._align_pitch *)

MinPlausibleHz == 50

MaxPlausibleHz == 2000

\* np.searchsorted(x, t): how many entries of the increasing x are below t
SearchSorted(x, t) == Cardinality({j \in 1..Len(x) : x[j] < t})

\* interpolation clamped to the source's time bounds: outside the first and the
\* last source time it returns the end value instead of extrapolating
InterpClamped(x, y, t) ==
    LET tc == Max(x[1], Min(x[Len(x)], t))
        lo == Max(1, Min(SearchSorted(x, tc), Len(x) - 1))
        den == x[lo + 1] - x[lo]
    IN <<y[lo] * den + (y[lo + 1] - y[lo]) * (tc - x[lo]), den>>

\* interpolation that holds the lower sample instead of following the slope
InterpHold(x, y, t) ==
    LET lo == Max(1, Min(SearchSorted(x, t), Len(x) - 1))
    IN <<y[lo] * (x[lo + 1] - x[lo]), x[lo + 1] - x[lo]>>

\* interp1d(x, y, kind='linear', fill_value='extrapolate')(t) as the exact
\* fraction <<numerator, denominator>>: the segment is picked by searchsorted,
\* clipped to the first and the last segment, and
\* y_new = slope * (t - x_lo) + y_lo with slope = (y_hi - y_lo) / (x_hi - x_lo).
Interp(x, y, t) ==
    LET hi0 == Max(1, Min(SearchSorted(x, t), Len(x) - 1))
        lo == hi0
        hi == hi0 + 1
        den == x[hi] - x[lo]
    IN <<y[lo] * den + (y[hi] - y[lo]) * (t - x[lo]), den>>

\* the range filter with the limits themselves excluded (<=, >=)
ClipExclusive(q) ==
    IF q[1] <= Hz(MinPlausibleHz) * q[2] THEN NaN
    ELSE IF q[1] >= Hz(MaxPlausibleHz) * q[2] THEN NaN
    ELSE Num(q[1] \div q[2])

\* aligned[aligned < 50] = nan; aligned[aligned > 2000] = nan
ClipToRange(q) ==
    IF q[1] < Hz(MinPlausibleHz) * q[2] THEN NaN
    ELSE IF q[1] > Hz(MaxPlausibleHz) * q[2] THEN NaN
    ELSE Num(q[1] \div q[2])

\* the all-NaN contour sized by the source contour instead of the target
FullLikeSource(a) == [i \in 1..Len(user_pitch) |-> NaN]

\* np.full_like(target_pitch, np.nan)
FullLikeNaN(a) == [i \in 1..Len(a) |-> NaN]

align_pitch(u_pitch, u_time, t_pitch, t_time) ==
    LET valid_mask == [i \in 1..Len(u_pitch) |-> ~isnan(u_pitch[i])]
    IN IF CountTrue(valid_mask) < 2
       THEN Returned(FullLikeNaN(t_pitch))
       ELSE LET x == Compress(u_time, valid_mask)
                y == [i \in 1..CountTrue(valid_mask) |-> Compress(u_pitch, valid_mask)[i].v]
            IN Returned([k \in 1..Len(t_time) |-> ClipToRange(Interp(x, y, t_time[k]))])

-----------------------------------------------------------------------------
(* Inputs *)

MaxLen == 3

DefaultToleranceCents == 100

DefaultVibratoLo == 4

DefaultVibratoHi == 8

DefaultMinDepth == 30

StepMs == 10

TargetSamples == {NaN, Num(Hz(440))}

UserSamples == {NaN, Num(Hz(440)), Num(46616), Num(Hz(470))}

\* an analyser built with a tolerance of one octave, and user frames an octave
\* below the reference: the one error that equals a tolerance exactly
OctaveToleranceCents == 1200

OctaveSamples == {NaN, Num(Hz(220)), Num(Hz(440))}

ContoursOf(S, n) == [1..n -> S]

Contours(S) == UNION {ContoursOf(S, n) : n \in 0..MaxLen}

\* the detector's frame times: one frame every step_size milliseconds
Grid(n) == [i \in 1..n |-> (i - 1) * StepMs]

\* a reference grid: its first frame time, its frame step and its length
GridFrom(start, step, n) == [i \in 1..n |-> start + (i - 1) * step]

\* the time axes of a long contour: the detector's grid, or a reference grid
\* of twice the step that the contour was aligned onto
LongGrids(n) == {Grid(n), GridFrom(0, 2 * StepMs, n)}

\* Contours long enough for the vibrato detector: a held note, plain or with a
\* triangular modulation of the given period (in frames) around it, with or
\* without an unvoiced first frame.
MaxExtraFrames == 1

LongLens == (MinVibratoFrames - 1)..(MinVibratoFrames + MaxExtraFrames)

Periods == {8, 20}

Triangle(i, period) ==
    LET q == period \div 4
        k == i % period
    IN IF k <= q THEN k ELSE IF k <= 3 * q THEN 2 * q - k ELSE k - 4 * q

HeldNote(n, f) == [i \in 1..n |-> Num(f)]

Modulated(n, f, amp, period) ==
    [i \in 1..n |-> Num(f + (amp * Triangle(i, period)) \div (period \div 4))]

Unvoiced(c, i) == [c EXCEPT ![i] = NaN]

LongContours ==
    LET voiced == UNION {{HeldNote(n, 46616)}
                           \cup {Modulated(n, 46616, Hz(3), p) : p \in Periods}
                         : n \in LongLens}
    IN voiced \cup {Unvoiced(c, 1) : c \in voiced}

-----------------------------------------------------------------------------
(* Calls *)

NoCall == [op |-> "none", status |-> "none"]

Call(op, outcome) == [op |-> op] @@ outcome

\* the analysis calls, a report once per kind of scorer
Operations ==
    {"analyze_pitch_accuracy", "score_pitch", "detect_vibrato", "align_pitch",
     "generate_report(scorer=None)", "generate_report(scorer)"}

Operation(r) ==
    IF r.op = "generate_report"
    THEN (IF r.scorer = NoScorer THEN "generate_report(scorer=None)"
          ELSE "generate_report(scorer)")
    ELSE r.op

\* history of the outcomes of each analysis call; kept only where a property calls with one another
\* compares calls with one another.  again: the last call was one made before.
Unseen(on) == [on |-> on, outcomes |-> [o \in Operations |-> {}], again |-> FALSE]

Noted(s, r) ==
    IF s.on /\ Operation(r) \in Operations
    THEN [on |-> TRUE,
          outcomes |-> [s.outcomes EXCEPT ![Operation(r)] = @ \cup {r}],
          again |-> s.outcomes[Operation(r)] # {}]
    ELSE s

\* the application and the session manager as constructed, nothing stored
NoAudio == [unset |-> TRUE]

AppConstructed ==
    /\ app = [current_session |-> None, current_song |-> None, user_audio |-> NoAudio,
              target_loaded |-> FALSE]
    /\ session_manager = [current_session |-> None, sessions |-> <<>>]
    /\ heap = <<>>
    /\ storage = <<>>
    /\ clock = 0

\* RealTimeRecorder.__init__
RecorderConstructed ==
    /\ recorder = [is_recording |-> FALSE, stream |-> None, audio_queue |-> <<>>]
    /\ delivered = 0

\* AudioBuffer.__init__, max_samples = int(max_duration * sample_rate)
BufferConstructed(max_samples) ==
    /\ audio_buffer = [max_samples |-> max_samples,
                       buffer |-> [i \in 1..max_samples |-> 0],
                       write_pos |-> 0,
                       lock |-> "free"]
    /\ writer = [pc |-> "idle", samples |-> <<>>]
    /\ reader = [pc |-> "idle", n_samples |-> 0]
    /\ written = 0

Constructed == AppConstructed /\ RecorderConstructed /\ BufferConstructed(1)

AnalyzePitchAccuracy ==
    /\ result' = Call("analyze_pitch_accuracy",
                      analyze_pitch_accuracy(user_pitch, target_pitch, pitch_tolerance_cents))
    /\ seen' = Noted(seen, result')
    /\ UNCHANGED <<config, inputs, objects>>

ScorePitch ==
    /\ result' = Call("score_pitch", score_pitch(user_pitch, target_pitch))
    /\ seen' = Noted(seen, result')
    /\ UNCHANGED <<config, inputs, objects>>

DetectVibrato ==
    /\ result' = Call("detect_vibrato",
                      detect_vibrato(user_pitch, target_time, vibrato_freq_range,
                                     min_vibrato_depth))
    /\ seen' = Noted(seen, result')
    /\ UNCHANGED <<config, inputs, objects>>

\* a report computed with the scorer of the report before it
GenerateReportRetained(sc) ==
    /\ result' = [scorer |-> sc] @@
                  Call("generate_report",
                       generate_report(user_pitch, target_pitch, target_time,
                                       IF result.op = "generate_report"
                                       THEN result.scorer ELSE sc,
                                       pitch_tolerance_cents, vibrato_freq_range,
                                       min_vibrato_depth))
    /\ seen' = Noted(seen, result')
    /\ UNCHANGED <<config, inputs, objects>>

GenerateReport(sc) ==
    /\ result' = [scorer |-> sc] @@
                  Call("generate_report",
                       generate_report(user_pitch, target_pitch, target_time, sc,
                                       pitch_tolerance_cents, vibrato_freq_range,
                                       min_vibrato_depth))
    /\ seen' = Noted(seen, result')
    /\ UNCHANGED <<config, inputs, objects>>

Init ==
    /\ vibrato_freq_range = <<DefaultVibratoLo, DefaultVibratoHi>>
    /\ min_vibrato_depth = DefaultMinDepth
    /\ \/ /\ pitch_tolerance_cents = DefaultToleranceCents
          /\ user_pitch \in Contours(UserSamples)
          /\ target_pitch \in Contours(TargetSamples)
       \/ /\ pitch_tolerance_cents = OctaveToleranceCents
          /\ user_pitch \in Contours(OctaveSamples)
          /\ target_pitch \in Contours(TargetSamples)
       \/ /\ pitch_tolerance_cents = DefaultToleranceCents
          /\ user_pitch \in LongContours
          /\ target_pitch = HeldNote(Len(user_pitch), Hz(440))
    /\ user_time = Grid(Len(user_pitch))
    /\ target_time \in (IF Len(target_pitch) < MinVibratoFrames - 1
                        THEN {Grid(Len(target_pitch))}
                        ELSE LongGrids(Len(target_pitch)))
    /\ result = NoCall
    /\ seen = Unseen(FALSE)
    /\ Constructed

Next ==
    \/ AnalyzePitchAccuracy
    \/ ScorePitch
    \/ DetectVibrato
    \/ \E sc \in {NoScorer, TheScorer} : GenerateReport(sc)

Spec == Init /\ [][Next]_vars

-----------------------------------------------------------------------------
(* The aligner on its own: a detected contour on the detector's grid,       *)
(* resampled onto a reference grid.                                         *)

MaxGridLen == 3

SourceSamples == {NaN, Num(Hz(40)), Num(Hz(MinPlausibleHz)), Num(Hz(MaxPlausibleHz))}

GridStarts == {0 - StepMs, 0, StepMs \div 2}

GridSteps == {StepMs \div 2, StepMs, 2 * StepMs}

ReferenceGrids ==
    {GridFrom(s, d, n) : s \in GridStarts, d \in GridSteps, n \in 0..MaxGridLen}

\* an aligner that marks the implausible frames in the contour it was given
AlignPitchInPlace ==
    /\ result' = Call("align_pitch",
                      align_pitch(user_pitch, user_time, target_pitch, target_time))
    /\ seen' = Noted(seen, result')
    /\ user_pitch' = [i \in 1..Len(user_pitch) |->
                         IF isnan(user_pitch[i]) THEN NaN
                         ELSE ClipToRange(<<user_pitch[i].v, 1>>)]
    /\ UNCHANGED <<config, user_time, target_pitch, target_time, objects>>

AlignPitch ==
    /\ result' = Call("align_pitch",
                      align_pitch(user_pitch, user_time, target_pitch, target_time))
    /\ seen' = Noted(seen, result')
    /\ UNCHANGED <<config, inputs, objects>>

InitAlign ==
    /\ pitch_tolerance_cents = DefaultToleranceCents
    /\ vibrato_freq_range = <<DefaultVibratoLo, DefaultVibratoHi>>
    /\ min_vibrato_depth = DefaultMinDepth
    /\ user_pitch \in Contours(SourceSamples)
    /\ user_time = Grid(Len(user_pitch))
    /\ target_time \in ReferenceGrids \cup {user_time}
    /\ target_pitch = [i \in 1..Len(target_time) |-> Num(Hz(440))]
    /\ result = NoCall
    /\ seen = Unseen(FALSE)
    /\ Constructed

NextAlign == AlignPitch

SpecAlign == InitAlign /\ [][NextAlign]_vars

-----------------------------------------------------------------------------
(* karaoke_app.py: KaraokeApp.analyze_performance, in the states where a    *)
(* song is selected and a recording was made.  The user contour is the      *)
(* detector's output on the detector's grid; the reference is the contour   *)
(* stored for the song (SongManager.save_target_pitch, or the library's     *)
(* <id>_pitch.npy and <id>_time.npy), on the grid it was stored with.       *)

StoredSteps == {StepMs, 2 * StepMs}

StoredGrids == {GridFrom(0, d, n) : d \in StoredSteps, n \in 0..MaxGridLen}

\* user_pitch as handed to generate_report, with the grid its samples sit on
Handed(u_pitch, u_time, t_pitch, t_time) ==
    IF Len(u_pitch) # Len(t_pitch)
    THEN [pitch |-> align_pitch(u_pitch, u_time, t_pitch, t_time).value, time |-> t_time]
    ELSE [pitch |-> u_pitch, time |-> u_time]

analyze_performance(u_pitch, u_time, t_pitch, t_time, tol, freq_range, min_depth) ==
    LET handed == Handed(u_pitch, u_time, t_pitch, t_time)
    IN [handed |-> handed] @@
       generate_report(handed.pitch, t_pitch, t_time, TheScorer, tol, freq_range, min_depth)

AnalyzePerformance ==
    /\ result' = Call("analyze_performance",
                      analyze_performance(user_pitch, user_time, target_pitch, target_time,
                                          pitch_tolerance_cents, vibrato_freq_range,
                                          min_vibrato_depth))
    /\ seen' = Noted(seen, result')
    /\ UNCHANGED <<config, inputs, objects>>

InitApp ==
    /\ pitch_tolerance_cents = DefaultToleranceCents
    /\ vibrato_freq_range = <<DefaultVibratoLo, DefaultVibratoHi>>
    /\ min_vibrato_depth = DefaultMinDepth
    /\ user_pitch \in Contours(UserSamples)
    /\ user_time = Grid(Len(user_pitch))
    /\ target_time \in StoredGrids
    /\ target_pitch \in ContoursOf(TargetSamples, Len(target_time))
    /\ result = NoCall
    /\ seen = Unseen(FALSE)
    /\ Constructed

NextApp == AnalyzePerformance

SpecApp == InitApp /\ [][NextApp]_vars

-----------------------------------------------------------------------------
(* The analysis calls made one after another in any order on the same       *)
(* inputs, with the history of their outcomes kept: two-frame contours, one  *)
(* frame possibly implausible or unvoiced, against a two-frame or a          *)
(* three-frame reference, and one modulated note long enough for the         *)
(* vibrato detector.                                                         *)

RepeatSamples == {NaN, Num(Hz(40)), Num(Hz(440)), Num(Hz(470))}

InitCalls ==
    /\ pitch_tolerance_cents = DefaultToleranceCents
    /\ vibrato_freq_range = <<DefaultVibratoLo, DefaultVibratoHi>>
    /\ min_vibrato_depth = DefaultMinDepth
    /\ \/ /\ user_pitch \in ContoursOf(RepeatSamples, 2)
          /\ target_pitch \in ContoursOf(TargetSamples, 2) \cup {HeldNote(3, Hz(440))}
       \/ /\ user_pitch = Modulated(MinVibratoFrames, 46616, Hz(3), 20)
          /\ target_pitch = HeldNote(MinVibratoFrames, Hz(440))
    /\ user_time = Grid(Len(user_pitch))
    /\ target_time = Grid(Len(target_pitch))
    /\ result = NoCall
    /\ seen = Unseen(TRUE)
    /\ Constructed

NextCalls ==
    \/ AnalyzePitchAccuracy
    \/ ScorePitch
    \/ DetectVibrato
    \/ AlignPitch
    \/ \E sc \in {NoScorer, TheScorer} : GenerateReport(sc)

SpecCalls == InitCalls /\ [][NextCalls]_vars

-----------------------------------------------------------------------------
(* karaoke_app.py and session.py: the workflow of KaraokeApp over a         *)
(* SessionManager that starts on an empty storage directory.  A session     *)
(* object is a cell of the heap and is referred to by its index; the        *)
(* manager's map and the storage directory are keyed by session_id.  The    *)
(* clock is datetime.now() as create_session formats it, to the second.     *)

MaxSessions == 2

MaxClock == 1

MaxResults == 1

Usernames == {"ann", "bob"}

Ref(i) == [ref |-> i]

\* the library: two songs whose target contour is stored, and one that has
\* none and whose audio file cannot be loaded
Songs == {"ballad", "anthem", "lost"}

SongIds == Songs \cup {"unknown"}

Song(id) == [id |-> id]

\* SongManager.get_target_pitch
get_target_pitch(song_id) ==
    IF song_id = "ballad"
    THEN [time |-> Grid(2), pitch |-> HeldNote(2, Hz(440))]
    ELSE IF song_id = "anthem"
    THEN [time |-> Grid(2), pitch |-> <<NaN, Num(Hz(440))>>]
    ELSE None

\* what RealTimeRecorder.get_audio returns, with the contour the detector
\* finds in it: nothing captured, or two frames of which one is voiced
Recordings ==
    {[empty |-> TRUE, pitch |-> <<>>],
     [empty |-> FALSE, pitch |-> <<Num(Hz(470)), NaN>>]}

\* f"{username}_{timestamp}", the timestamp to the second
SessionId(username, now) == <<username, now>>

KaraokeSession(session_id, username) ==
    [session_id |-> session_id, username |-> username, results |-> <<>>]

Bind(key, value, map) == (key :> value) @@ map

\* SessionManager.create_session
create_session(username, manager, cells, now) ==
    LET session_id == SessionId(username, now)
        session == Ref(Len(cells) + 1)
    IN [session |-> session,
        heap |-> Append(cells, KaraokeSession(session_id, username)),
        session_manager |-> [current_session |-> session,
                             sessions |-> Bind(session_id, session, manager.sessions)]]

StartSession(username) ==
    /\ Len(heap) < MaxSessions
    /\ LET created == create_session(username, session_manager, heap, clock)
       IN /\ heap' = created.heap
          /\ session_manager' = created.session_manager
          /\ app' = [app EXCEPT !.current_session = created.session]
          /\ result' = Call("start_session", Returned(created.session))
    /\ UNCHANGED <<config, inputs, seen, storage, clock, capture>>

\* SessionManager.save_session: the file <session_id>.json opened with "w"
save_session(session, files) == Bind(session.session_id, session, files)

EndSession ==
    /\ IF app.current_session = None
       THEN /\ result' = Call("end_session", Returned(None))
            /\ UNCHANGED <<session_manager, storage>>
       ELSE IF session_manager.current_session = None
       THEN \* SessionManager.end_session returned None; None.get_average_score()
            /\ result' = Call("end_session", Raised("AttributeError"))
            /\ UNCHANGED <<session_manager, storage>>
       ELSE /\ storage' = save_session(heap[session_manager.current_session.ref], storage)
            /\ session_manager' = [session_manager EXCEPT !.current_session = None]
            /\ result' = Call("end_session", Returned(session_manager.current_session))
    /\ UNCHANGED <<config, inputs, seen, app, heap, clock, capture>>

SelectSong(song_id) ==
    /\ IF song_id \notin Songs
       THEN /\ result' = Call("select_song", Raised("ValueError"))
            /\ UNCHANGED <<app, target_time, target_pitch>>
       ELSE IF get_target_pitch(song_id) # None
       THEN /\ app' = [app EXCEPT !.current_song = Song(song_id), !.target_loaded = TRUE]
            /\ target_time' = get_target_pitch(song_id).time
            /\ target_pitch' = get_target_pitch(song_id).pitch
            /\ result' = Call("select_song", Returned(Song(song_id)))
       ELSE \* current_song is set, then librosa.load fails on the missing file
            /\ app' = [app EXCEPT !.current_song = Song(song_id)]
            /\ result' = Call("select_song", Raised("FileNotFoundError"))
            /\ UNCHANGED <<target_time, target_pitch>>
    /\ UNCHANGED <<config, user_pitch, user_time, seen, session_manager, heap, storage, clock, capture>>

RecordPerformance(audio) ==
    /\ IF app.current_song = None
       THEN /\ result' = Call("record_performance", Raised("RuntimeError"))
            /\ UNCHANGED app
       ELSE /\ app' = [app EXCEPT !.user_audio =
                          [recorded_for |-> app.current_song] @@ audio]
            /\ result' = Call("record_performance", Returned(audio))
    /\ UNCHANGED <<config, inputs, seen, session_manager, heap, storage, clock, capture>>

\* analyze_performance from its guards on: the detector's contour of the
\* recording, then the analysis of AnalyzePerformance
AnalyzeRecording ==
    /\ IF \/ app.current_song = None
          \/ app.user_audio = NoAudio
          \/ (app.user_audio # NoAudio /\ app.user_audio.empty)
          \/ ~app.target_loaded
       THEN /\ result' = Call("analyze_performance", Raised("RuntimeError"))
            /\ UNCHANGED <<user_pitch, user_time>>
       ELSE /\ user_pitch' = app.user_audio.pitch
            /\ user_time' = Grid(Len(app.user_audio.pitch))
            /\ result' = [recorded_for |-> app.user_audio.recorded_for,
                          scored_against |-> app.current_song] @@
                         Call("analyze_performance",
                              analyze_performance(user_pitch', user_time', target_pitch,
                                                  target_time, pitch_tolerance_cents,
                                                  vibrato_freq_range, min_vibrato_depth))
    /\ UNCHANGED <<config, target_pitch, target_time, seen, objects>>

\* the report handed to save_performance: the last analysis's, or any other
ReportScore ==
    IF result.op = "analyze_performance" /\ result.status = "returned"
    THEN result.value.total_score
    ELSE Pts(0)

SavePerformance ==
    /\ IF app.current_session = None \/ app.current_song = None
       THEN /\ result' = Call("save_performance", Raised("RuntimeError"))
            /\ UNCHANGED heap
       ELSE /\ Len(heap[app.current_session.ref].results) < MaxResults
            /\ LET saved == [song_id |-> app.current_song.id, score |-> ReportScore]
               IN /\ heap' = [heap EXCEPT ![app.current_session.ref].results =
                                              Append(@, saved)]
                  /\ result' = Call("save_performance", Returned(saved))
    /\ UNCHANGED <<config, inputs, seen, app, session_manager, storage, clock, capture>>

\* a second passes
Tick ==
    /\ clock < MaxClock
    /\ clock' = clock + 1
    /\ UNCHANGED <<config, inputs, result, seen, app, session_manager, heap, storage, capture>>

InitWorkflow ==
    /\ pitch_tolerance_cents = DefaultToleranceCents
    /\ vibrato_freq_range = <<DefaultVibratoLo, DefaultVibratoHi>>
    /\ min_vibrato_depth = DefaultMinDepth
    /\ user_pitch = <<>> /\ user_time = <<>>
    /\ target_pitch = <<>> /\ target_time = <<>>
    /\ result = NoCall
    /\ seen = Unseen(FALSE)
    /\ Constructed

NextWorkflow ==
    \/ \E username \in Usernames : StartSession(username)
    \/ EndSession
    \/ \E song_id \in SongIds : SelectSong(song_id)
    \/ \E audio \in Recordings : RecordPerformance(audio)
    \/ AnalyzeRecording
    \/ SavePerformance
    \/ Tick

SpecWorkflow == InitWorkflow /\ [][NextWorkflow]_vars

-----------------------------------------------------------------------------
(* recorder.py: RealTimeRecorder.  The stream is None, or the input stream  *)
(* the recorder holds open, started or not; while it is started the device  *)
(* delivers chunks to _audio_callback.                                      *)

MaxChunks == 4

Stream(active) == [active |-> active]

Start ==
    /\ IF recorder.is_recording
       THEN /\ result' = Call("start", Returned(None))
            /\ UNCHANGED recorder
       ELSE \/ /\ recorder' = [recorder EXCEPT !.is_recording = TRUE,
                                               !.stream = Stream(TRUE)]
               /\ result' = Call("start", Returned(None))
            \/ \* sd.InputStream(...) raises: the device cannot be opened
               /\ recorder' = [recorder EXCEPT !.is_recording = TRUE]
               /\ result' = Call("start", Raised("PortAudioError"))
            \/ \* the stream is opened and stream.start() raises
               /\ recorder' = [recorder EXCEPT !.is_recording = TRUE,
                                               !.stream = Stream(FALSE)]
               /\ result' = Call("start", Raised("PortAudioError"))
    /\ UNCHANGED <<config, inputs, seen, app, session_manager, heap, storage, clock,
                   delivered, audio_buffer, writer, reader, written>>

Stop ==
    /\ IF ~recorder.is_recording
       THEN UNCHANGED recorder
       ELSE recorder' = [recorder EXCEPT !.is_recording = FALSE, !.stream = None]
    /\ result' = Call("stop", Returned(None))
    /\ UNCHANGED <<config, inputs, seen, app, session_manager, heap, storage, clock,
                   delivered, audio_buffer, writer, reader, written>>

\* _audio_callback, called by the started stream with the next chunk
AudioCallback ==
    /\ recorder.stream # None /\ recorder.stream.active
    /\ delivered < MaxChunks
    /\ delivered' = delivered + 1
    /\ recorder' = [recorder EXCEPT !.audio_queue = Append(@, delivered + 1)]
    /\ UNCHANGED <<config, inputs, result, seen, app, session_manager, heap, storage,
                   clock, audio_buffer, writer, reader, written>>

GetAudio ==
    /\ result' = Call("get_audio", Returned(recorder.audio_queue))
    /\ recorder' = [recorder EXCEPT !.audio_queue = <<>>]
    /\ UNCHANGED <<config, inputs, seen, app, session_manager, heap, storage, clock,
                   delivered, audio_buffer, writer, reader, written>>

InitRecorder ==
    /\ pitch_tolerance_cents = DefaultToleranceCents
    /\ vibrato_freq_range = <<DefaultVibratoLo, DefaultVibratoHi>>
    /\ min_vibrato_depth = DefaultMinDepth
    /\ user_pitch = <<>> /\ user_time = <<>>
    /\ target_pitch = <<>> /\ target_time = <<>>
    /\ result = NoCall
    /\ seen = Unseen(FALSE)
    /\ Constructed

NextRecorder == Start \/ Stop \/ AudioCallback \/ GetAudio

SpecRecorder == InitRecorder /\ [][NextRecorder]_vars

-----------------------------------------------------------------------------
(* recorder.py: AudioBuffer, one thread writing and one reading.  The       *)
(* samples written are numbered 1, 2, 3, ... in the order they are written; *)
(* a write and a read each run under the buffer's lock, the write as the    *)
(* slice assignments it makes.  Indices are numpy's plus one.               *)

MaxCapacity == 3

MaxWritten == 6

Capacities == 1..MaxCapacity

\* a thread that does not wait for the lock
AcquireUnlocked(lock) == TRUE

\* with self.lock: the lock can be taken
Acquire(lock) == lock = "free"

\* buffer[lo:hi] = samples, for the numpy slice lo:hi
Assign(buffer, lo, hi, samples) ==
    [i \in 1..Len(buffer) |-> IF lo < i /\ i <= hi THEN samples[i - lo] ELSE buffer[i]]

WriteBegin(n) ==
    /\ writer.pc = "idle"
    /\ Acquire(audio_buffer.lock)
    /\ written + n <= MaxWritten
    /\ audio_buffer' = [audio_buffer EXCEPT !.lock = "writer"]
    /\ writer' = [pc |-> "copy", samples |-> [i \in 1..n |-> written + i]]
    /\ UNCHANGED <<config, inputs, result, seen, app, session_manager, heap, storage,
                   clock, recorder, delivered, reader, written>>

\* the direct write, or the first part of a write that wraps
WriteCopy ==
    /\ writer.pc = "copy"
    /\ LET n == Len(writer.samples)
           write_pos == audio_buffer.write_pos
           first_part == audio_buffer.max_samples - write_pos
       IN IF write_pos + n <= audio_buffer.max_samples
          THEN /\ audio_buffer' = [audio_buffer EXCEPT !.buffer =
                                      Assign(@, write_pos, write_pos + n, writer.samples)]
               /\ writer' = [writer EXCEPT !.pc = "advance"]
          ELSE /\ audio_buffer' = [audio_buffer EXCEPT !.buffer =
                                      Assign(@, write_pos, audio_buffer.max_samples,
                                             SubSeq(writer.samples, 1, first_part))]
               /\ writer' = [writer EXCEPT !.pc = "wrap"]
    /\ UNCHANGED <<config, inputs, result, seen, app, session_manager, heap, storage,
                   clock, recorder, delivered, reader, written>>

\* buffer[:n - first_part] = samples[first_part:]
WriteWrap ==
    /\ writer.pc = "wrap"
    /\ LET n == Len(writer.samples)
           first_part == audio_buffer.max_samples - audio_buffer.write_pos
       IN audio_buffer' = [audio_buffer EXCEPT !.buffer =
                              Assign(@, 0, n - first_part,
                                     SubSeq(writer.samples, first_part + 1, n))]
    /\ writer' = [writer EXCEPT !.pc = "advance"]
    /\ UNCHANGED <<config, inputs, result, seen, app, session_manager, heap, storage,
                   clock, recorder, delivered, reader, written>>

\* write_pos = (write_pos + n) % max_samples, and the lock is released
WriteAdvance ==
    /\ writer.pc = "advance"
    /\ audio_buffer' = [audio_buffer EXCEPT
                           !.write_pos = (@ + Len(writer.samples)) % audio_buffer.max_samples,
                           !.lock = "free"]
    /\ written' = written + Len(writer.samples)
    /\ writer' = [pc |-> "idle", samples |-> <<>>]
    /\ UNCHANGED <<config, inputs, result, seen, app, session_manager, heap, storage,
                   clock, recorder, delivered, reader>>

\* AudioBuffer.read's slices
read(buffer, write_pos, max_samples, n_samples) ==
    IF write_pos >= n_samples
    THEN SubSeq(buffer, write_pos - n_samples + 1, write_pos)
    ELSE SubSeq(buffer, max_samples - (n_samples - write_pos) + 1, max_samples)
         \o SubSeq(buffer, 1, write_pos)

\* requested: int(duration * sample_rate)
ReadBegin(requested) ==
    /\ reader.pc = "idle"
    /\ Acquire(audio_buffer.lock)
    /\ audio_buffer' = [audio_buffer EXCEPT !.lock = "reader"]
    /\ reader' = [pc |-> "copy", n_samples |-> Min(requested, audio_buffer.max_samples)]
    /\ UNCHANGED <<config, inputs, result, seen, app, session_manager, heap, storage,
                   clock, recorder, delivered, writer, written>>

\* the copy is returned and the lock released; the outcome is noted with the
\* samples written before the read and the size of a write under way
ReadCopy ==
    /\ reader.pc = "copy"
    /\ result' = [completed |-> written,
                  under_way |-> Len(writer.samples),
                  write_pos |-> audio_buffer.write_pos] @@
                 Call("read", Returned(read(audio_buffer.buffer, audio_buffer.write_pos,
                                            audio_buffer.max_samples, reader.n_samples)))
    /\ audio_buffer' = [audio_buffer EXCEPT !.lock = "free"]
    /\ reader' = [pc |-> "idle", n_samples |-> 0]
    /\ UNCHANGED <<config, inputs, seen, app, session_manager, heap, storage,
                   clock, recorder, delivered, writer, written>>

InitBuffer ==
    /\ pitch_tolerance_cents = DefaultToleranceCents
    /\ vibrato_freq_range = <<DefaultVibratoLo, DefaultVibratoHi>>
    /\ min_vibrato_depth = DefaultMinDepth
    /\ user_pitch = <<>> /\ user_time = <<>>
    /\ target_pitch = <<>> /\ target_time = <<>>
    /\ result = NoCall
    /\ seen = Unseen(FALSE)
    /\ AppConstructed /\ RecorderConstructed
    /\ \E max_samples \in Capacities : BufferConstructed(max_samples)

NextBuffer ==
    \/ \E n \in 0..audio_buffer.max_samples : WriteBegin(n)
    \/ WriteCopy
    \/ WriteWrap
    \/ WriteAdvance
    \/ \E requested \in 0..(audio_buffer.max_samples + 1) : ReadBegin(requested)
    \/ ReadCopy

SpecBuffer == InitBuffer /\ [][NextBuffer]_vars

-----------------------------------------------------------------------------
(* Properties of the analyser (checked under Spec) *)

EqualLength == Len(user_pitch) = Len(target_pitch)

Reported == result.op = "generate_report" /\ result.status = "returned"

Analysed == result.op = "analyze_pitch_accuracy" /\ result.status = "returned"

\* no frame has both the user and the target value present
NoOverlap ==
    \A i \in 1..Min(Len(user_pitch), Len(target_pitch)) :
        isnan(user_pitch[i]) \/ isnan(target_pitch[i])

\* C1: for equal-length contours, every report has accuracy in [0, 100],
\* stability in [0, 1] and total_score in [0, 100], with the default base score
\* and with the injected scorer.
C1_ScoresInRange ==
    (Reported /\ EqualLength) =>
        /\ 0 <= result.value.pitch_metrics.accuracy
        /\ result.value.pitch_metrics.accuracy <= Pts(100)
        /\ 0 <= result.value.pitch_metrics.stability
        /\ result.value.pitch_metrics.stability <= Pts(1)
        /\ 0 <= result.value.total_score
        /\ result.value.total_score <= Pts(100)

\* a report of the injected scorer, with vibrato detected, whose sum of base
\* score and bonuses is above 100 and whose stability is strictly inside (0, 1)
C1_Witness ==
    /\ Reported /\ EqualLength
    /\ result.scorer = TheScorer
    /\ result.value.vibrato_metrics.detected
    /\ result.value.pitch_metrics.stability > 0
    /\ result.value.pitch_metrics.stability < Pts(1)
    /\ score_pitch(user_pitch, target_pitch).value + Pts(5)
         + 10 * result.value.pitch_metrics.stability > Pts(100)
    /\ result.value.total_score = Pts(100)

\* C2: total_score is base + vibrato bonus + stability bonus clamped to
\* [0, 100]: base is score_pitch's result when a scorer is injected and the
\* accuracy otherwise, the vibrato bonus is 5 exactly when vibrato is detected,
\* the stability bonus is 10 times the report's stability.
C2_TotalScore ==
    Reported =>
        LET base == IF result.scorer = NoScorer
                    THEN result.value.pitch_metrics.accuracy
                    ELSE score_pitch(user_pitch, target_pitch).value
            bonus == IF result.value.vibrato_metrics.detected THEN Pts(5) ELSE 0
            sum == base + bonus + 10 * result.value.pitch_metrics.stability
        IN result.value.total_score
             = (IF sum > Pts(100) THEN Pts(100) ELSE IF sum < 0 THEN 0 ELSE sum)

\* a default-strategy report with vibrato detected whose total is not clamped
C2_Witness ==
    /\ Reported
    /\ result.scorer = NoScorer
    /\ result.value.vibrato_metrics.detected
    /\ result.value.pitch_metrics.stability > 0
    /\ result.value.total_score < Pts(100)
    /\ result.value.total_score > result.value.pitch_metrics.accuracy + Pts(5)

Without(s, i) == SubSeq(s, 1, i - 1) \o SubSeq(s, i + 1, Len(s))

MaskedFields(m) ==
    <<m.mean_error_hz, m.std_error_hz, m.accuracy, m.stability, m.voiced_frames>>

\* C3: masking law: a frame whose user or target value is absent does not
\* influence mean error, error deviation, accuracy, stability or voiced_frames:
\* the metrics of the contours are those of the contours without that frame.
C3_MaskingLaw ==
    (Analysed /\ EqualLength) =>
        \A i \in 1..Len(user_pitch) :
            (isnan(user_pitch[i]) \/ isnan(target_pitch[i])) =>
                MaskedFields(result.value)
                  = MaskedFields(analyze_pitch_accuracy(
                        Without(user_pitch, i), Without(target_pitch, i),
                        pitch_tolerance_cents).value)

\* analysed contours with an absent frame between two frames that count, where
\* the absent frame's other value is present
C3_Witness ==
    /\ Analysed /\ EqualLength
    /\ Len(user_pitch) = 3
    /\ isnan(user_pitch[2]) /\ ~isnan(target_pitch[2])
    /\ result.value.voiced_frames = 2
    /\ result.value.mean_error_hz.v > 0
    /\ result.value.accuracy = Pts(50)

\* C4: with no frame present in both contours (empty contours included),
\* analyze_pitch_accuracy returns, without raising, accuracy 0, stability 0,
\* voiced_frames 0, NaN error fields and total_frames = the input length.
C4_Degenerate ==
    (result.op = "analyze_pitch_accuracy" /\ EqualLength /\ NoOverlap) =>
        /\ result.status = "returned"
        /\ result.value.accuracy = 0
        /\ result.value.stability = 0
        /\ result.value.voiced_frames = 0
        /\ isnan(result.value.mean_error_hz)
        /\ isnan(result.value.std_error_hz)
        /\ result.value.total_frames = Len(user_pitch)

\* the degenerate metrics of non-empty contours that are voiced in different frames
C4_Witness ==
    /\ result.op = "analyze_pitch_accuracy" /\ EqualLength /\ NoOverlap
    /\ Len(user_pitch) = 2
    /\ ~isnan(user_pitch[1]) /\ ~isnan(target_pitch[2])
    /\ result.status = "returned"
    /\ result.value.total_frames = 2

\* C5: for equal-length contours and time grid, however little signal they
\* carry, generate_report returns a complete ScoreReport instead of raising,
\* and when accuracy is 0 the pitch_accuracy feedback is the
\* needs-improvement text.
C5_AlwaysReports ==
    (result.op = "generate_report" /\ EqualLength) =>
        /\ result.status = "returned"
        /\ DOMAIN result.value
             = {"total_score", "pitch_metrics", "vibrato_metrics", "duration", "notes"}
        /\ {"pitch_accuracy", "stability", "overall"} \subseteq DOMAIN result.value.notes
        /\ (result.value.pitch_metrics.accuracy = 0 =>
              result.value.notes["pitch_accuracy"]
                = <<"Pitch accuracy needs improvement. Listen carefully to the backing track.">>)

\* the report of empty contours: nothing voiced, no frames, no duration
C5_Witness ==
    /\ Reported /\ EqualLength
    /\ Len(user_pitch) = 0
    /\ result.value.pitch_metrics.accuracy = 0
    /\ result.value.total_score = 0
    /\ result.value.duration = 0
    /\ ~result.value.vibrato_metrics.detected
    /\ result.value.notes["pitch_accuracy"]
         = <<"Pitch accuracy needs improvement. Listen carefully to the backing track.">>

\* C6: whenever the user and the target contour differ in length, the analysis
\* entry points fail with an error and produce no metrics and no report.
C6_MismatchRaises ==
    (result.op \in {"analyze_pitch_accuracy", "generate_report"} /\ ~EqualLength) =>
        result.status = "raised"

-----------------------------------------------------------------------------
(* Properties of the aligner (checked under SpecAlign) *)

Aligned == result.op = "align_pitch" /\ result.status = "returned"

Voiced == {i \in 1..Len(user_pitch) : ~isnan(user_pitch[i])}

OwnGrid == target_time = user_time

InRange(f) == Hz(MinPlausibleHz) <= f /\ f <= Hz(MaxPlausibleHz)

\* the interpolated value at target frame k, before the range filter
Raw(k) ==
    LET m == [i \in 1..Len(user_pitch) |-> ~isnan(user_pitch[i])]
    IN Interp(Compress(user_time, m),
              [i \in 1..CountTrue(m) |-> Compress(user_pitch, m)[i].v],
              target_time[k])

InGap(t) ==
    \E i \in 1..Len(user_pitch), j \in 1..Len(user_pitch) :
        /\ i <= j
        /\ \A q \in i..j : isnan(user_pitch[q])
        /\ user_time[i] <= t /\ t <= user_time[j]

\* C8: alignment propagates unvoiced gaps: a target time inside a stretch where
\* the source contour is absent yields an absent entry.
C8_GapsPropagate ==
    Aligned =>
        \A k \in 1..Len(target_time) :
            InGap(target_time[k]) => isnan(result.value[k])

\* C9: round trip: aligning a contour with at least two voiced points onto its
\* own grid returns the original value wherever the original was voiced.
C9_RoundTrip ==
    (Aligned /\ OwnGrid /\ Cardinality(Voiced) >= 2) =>
        \A i \in Voiced : result.value[i] = user_pitch[i]

\* C9 as amended: the original value wherever the original was voiced with a
\* value in [50, 2000] Hz; voiced values outside that range come back absent.
C9_RoundTripInRange ==
    (Aligned /\ OwnGrid /\ Cardinality(Voiced) >= 2) =>
        \A i \in Voiced :
            IF InRange(user_pitch[i].v)
            THEN result.value[i] = user_pitch[i]
            ELSE isnan(result.value[i])

\* a round trip that returns different in-range values at the first and the
\* last frame, and returns the frame of 40 Hz between them absent
C9_Witness ==
    /\ Aligned /\ OwnGrid /\ Cardinality(Voiced) = 3
    /\ user_pitch[1] = Num(Hz(MinPlausibleHz)) /\ result.value[1] = user_pitch[1]
    /\ user_pitch[2] = Num(Hz(40)) /\ isnan(result.value[2])
    /\ user_pitch[3] = Num(Hz(MaxPlausibleHz)) /\ result.value[3] = user_pitch[3]

\* C10: every present value of an aligned contour lies in [50, 2000] Hz;
\* interpolated and extrapolated values outside come back absent, values of
\* exactly 50 or 2000 Hz are kept.
C10_PlausibleRange ==
    Aligned =>
        \A k \in 1..Len(result.value) :
            /\ ~isnan(result.value[k]) => InRange(result.value[k].v)
            /\ Cardinality(Voiced) >= 2 =>
                 LET q == Raw(k)
                 IN /\ q[1] < Hz(MinPlausibleHz) * q[2] => isnan(result.value[k])
                    /\ q[1] > Hz(MaxPlausibleHz) * q[2] => isnan(result.value[k])
                    /\ q[1] = Hz(MinPlausibleHz) * q[2]
                         => result.value[k] = Num(Hz(MinPlausibleHz))
                    /\ q[1] = Hz(MaxPlausibleHz) * q[2]
                         => result.value[k] = Num(Hz(MaxPlausibleHz))

\* an aligned contour holding exactly 50 Hz and exactly 2000 Hz, with one
\* extrapolated value outside [50, 2000] Hz returned absent
C10_Witness ==
    /\ Aligned /\ Cardinality(Voiced) >= 2
    /\ \E k \in 1..Len(result.value) : result.value[k] = Num(Hz(MinPlausibleHz))
    /\ \E k \in 1..Len(result.value) : result.value[k] = Num(Hz(MaxPlausibleHz))
    /\ \E k \in 1..Len(result.value) :
          /\ isnan(result.value[k])
          /\ \/ Raw(k)[1] < Hz(MinPlausibleHz) * Raw(k)[2]
             \/ Raw(k)[1] > Hz(MaxPlausibleHz) * Raw(k)[2]

\* voiced source frames i < j with no voiced frame between them
Consecutive(i, j) ==
    /\ i \in Voiced /\ j \in Voiced /\ i < j
    /\ \A q \in Voiced : ~(i < q /\ q < j)

\* the segment i..j is the one that decides the value at time t: t lies on it,
\* or before it when it is the first segment, or after it when it is the last
Decides(i, j, t) ==
    /\ Consecutive(i, j)
    /\ \/ user_time[i] <= t /\ t <= user_time[j]
       \/ t < user_time[i] /\ \A q \in Voiced : i <= q
       \/ t > user_time[j] /\ \A q \in Voiced : q <= j

\* the entry e is the value at t of the line through source frames i and j,
\* absent when that value is outside [50, 2000] Hz
OnLine(e, i, j, t) ==
    LET den == user_time[j] - user_time[i]
        num == user_pitch[i].v * den
                 + (user_pitch[j].v - user_pitch[i].v) * (t - user_time[i])
    IN IF num < Hz(MinPlausibleHz) * den \/ num > Hz(MaxPlausibleHz) * den
       THEN isnan(e)
       ELSE e = Num(num \div den)

-----------------------------------------------------------------------------
(* Properties of the analyser, continued (checked under Spec) *)

Masked == {i \in 1..Len(user_pitch) : ~isnan(user_pitch[i]) /\ ~isnan(target_pitch[i])}

Higher(i) == Max(user_pitch[i].v, target_pitch[i].v)

Lower(i) == Min(user_pitch[i].v, target_pitch[i].v)

\* frames certainly inside the tolerance: under an octave for the octave
\* tolerance, a ratio of at most 1.05946 < 2^(1/12) for the semitone tolerance
SurelyWithin ==
    {i \in Masked :
        IF pitch_tolerance_cents = OctaveToleranceCents
        THEN Higher(i) < 2 * Lower(i)
        ELSE (Higher(i) - Lower(i)) * 100000 <= Lower(i) * 5946}

\* frames possibly inside the tolerance: the same, with 1.05947 > 2^(1/12)
PossiblyWithin ==
    {i \in Masked :
        IF pitch_tolerance_cents = OctaveToleranceCents
        THEN Higher(i) < 2 * Lower(i)
        ELSE (Higher(i) - Lower(i)) * 100000 < Lower(i) * 5947}

AllFrames(u, t) ==
    /\ Len(user_pitch) > 0
    /\ \A i \in 1..Len(user_pitch) : user_pitch[i] = Num(u) /\ target_pitch[i] = Num(t)

\* C13: a masked frame counts toward accuracy only when its cents error is
\* strictly below the tolerance, a frame whose error equals the tolerance is
\* not counted, and so 466.16 Hz against 440.0 Hz on every frame has accuracy
\* 0 at the default tolerance of 100 cents.
C13_SemitoneSharpScoresZero ==
    (Analysed /\ EqualLength /\ Masked # {}) =>
        /\ result.value.accuracy * Cardinality(Masked)
              <= Pts(100) * Cardinality(PossiblyWithin)
        /\ (pitch_tolerance_cents = DefaultToleranceCents /\ AllFrames(46616, Hz(440)))
              => result.value.accuracy = 0

\* C13 as amended: a masked frame counts toward accuracy exactly when its cents
\* error is strictly below the tolerance, a frame whose error equals the
\* tolerance is not counted; 466.16 Hz against 440.0 Hz is 99.99 cents, inside
\* the default tolerance, and has accuracy 100, while 470 Hz has accuracy 0.
C13_StrictTolerance ==
    (Analysed /\ EqualLength /\ Masked # {}) =>
        /\ result.value.accuracy * Cardinality(Masked)
              <= Pts(100) * Cardinality(PossiblyWithin)
        /\ result.value.accuracy * Cardinality(Masked)
              > Pts(100) * Cardinality(SurelyWithin) - Cardinality(Masked)
        /\ (pitch_tolerance_cents = DefaultToleranceCents /\ AllFrames(46616, Hz(440)))
              => result.value.accuracy = Pts(100)
        /\ (pitch_tolerance_cents = DefaultToleranceCents /\ AllFrames(Hz(470), Hz(440)))
              => result.value.accuracy = 0

\* an analysis at the octave tolerance of one frame exactly an octave below the
\* reference, not counted, and one frame on the reference, counted
C13_Witness ==
    /\ Analysed /\ EqualLength
    /\ pitch_tolerance_cents = OctaveToleranceCents
    /\ Cardinality(Masked) = 2
    /\ \E i \in Masked : Higher(i) = 2 * Lower(i)
    /\ \E i \in Masked : Higher(i) = Lower(i)
    /\ result.value.accuracy = Pts(50)

Identical ==
    /\ user_pitch = target_pitch
    /\ \A i \in 1..Len(user_pitch) : ~isnan(user_pitch[i])

\* C14: when the user contour equals the target contour on every frame and no
\* frame is absent, analyze_pitch_accuracy returns accuracy 100, mean_error_hz
\* 0 and stability exactly 1.0.
C14_IdenticalContours ==
    (Analysed /\ Identical) =>
        /\ result.value.accuracy = Pts(100)
        /\ result.value.mean_error_hz = Num(0)
        /\ result.value.stability = Pts(1)

\* C14 as amended: the same for contours of at least one frame (contours
\* without frames get the degenerate metrics: accuracy 0, stability 0).
C14_IdenticalNonEmpty ==
    (Analysed /\ Identical /\ Len(user_pitch) > 0) =>
        /\ result.value.accuracy = Pts(100)
        /\ result.value.mean_error_hz = Num(0)
        /\ result.value.stability = Pts(1)

\* the analysis of a contour of several frames against itself
C14_Witness ==
    /\ Analysed /\ Identical
    /\ Len(user_pitch) >= 2
    /\ result.value.voiced_frames = Len(user_pitch)
    /\ result.value.std_error_hz = Num(0)
    /\ result.value.stability = Pts(1)

Scored == result.op = "score_pitch" /\ result.status = "returned"

\* the sum over the masked frames of the absolute error, in hundredths of a hertz
MaskedErrorSum ==
    Sum([i \in 1..Len(user_pitch) |->
            IF i \in Masked THEN Abs(user_pitch[i].v - target_pitch[i].v) ELSE 0])

\* C15: on equal-length contours score_pitch returns 100 minus half the mean
\* absolute Hz error over the frames where both values are present, clamped to
\* [0, 100]; 0 when no frame has both values; exactly 100 for identical
\* non-empty contours without absent entries.
C15_QuickScore ==
    (result.op = "score_pitch" /\ EqualLength) =>
        /\ result.status = "returned"
        /\ 0 <= result.value /\ result.value <= Pts(100)
        /\ Masked = {} => result.value = 0
        /\ Masked # {} =>
              LET n == Cardinality(Masked)
                  room == Pts(100) * n - 50 * MaskedErrorSum
              IN IF room <= 0 THEN result.value = 0
                 ELSE /\ result.value * n <= room
                      /\ room < (result.value + 1) * n
        /\ (Identical /\ Len(user_pitch) > 0) => result.value = Pts(100)

\* a score strictly between 0 and 100 taken over the two frames that have both
\* values, of which one is off the reference, with a third frame left out
C15_Witness ==
    /\ Scored /\ EqualLength
    /\ Len(user_pitch) = 3 /\ Cardinality(Masked) = 2
    /\ MaskedErrorSum = Hz(30)
    /\ result.value = Pts(100) - 75000

\* C16: score_pitch called with contours of different shapes raises
\* ValueError, computing no mask and no score, for every pair of differing
\* lengths.
C16_ShapeMismatchRaises ==
    (result.op = "score_pitch" /\ ~EqualLength) =>
        /\ result.status = "raised"
        /\ result.error = "ValueError"
        /\ "value" \notin DOMAIN result

\* the call refused for a one-frame user contour against a longer target,
\* shapes that numpy would broadcast
C16_Witness ==
    /\ result.op = "score_pitch"
    /\ Len(user_pitch) = 1 /\ Len(target_pitch) = 2
    /\ ~isnan(user_pitch[1])
    /\ result.status = "raised"
    /\ result.error = "ValueError"

VibratoChecked == result.op = "detect_vibrato" /\ result.status = "returned"

VoicedCount == Cardinality({i \in 1..Len(user_pitch) : ~isnan(user_pitch[i])})

\* the contour is a note modulated at 5 Hz (a period of 20 frames of 10 ms)
FiveHertzModulation ==
    /\ target_time = Grid(Len(target_time))
    /\ \E n \in LongLens :
          user_pitch \in {Modulated(n, 46616, Hz(3), 20),
                          Unvoiced(Modulated(n, 46616, Hz(3), 20), 1)}

\* C17: detect_vibrato reports detected = false for every contour with fewer
\* than 100 voiced frames, whatever its modulation; a contour with exactly 100
\* voiced frames passes this gate (a 5 Hz modulation in it is detected).
C17_FrameGate ==
    result.op = "detect_vibrato" =>
        /\ VoicedCount < 100 =>
              result.status = "returned" /\ ~result.value.detected
        /\ (VoicedCount = 100 /\ FiveHertzModulation) =>
              result.status = "returned" /\ result.value.detected

\* a 5 Hz modulation over 99 voiced frames, one frame short, reported not
\* detected
C17_Witness ==
    /\ VibratoChecked
    /\ VoicedCount = 99 /\ FiveHertzModulation
    /\ result.value = NotDetected

IsNumber(x) == "v" \in DOMAIN x /\ x = Num(x.v)

\* the autocorrelation of the zero-meaned residual of the user contour, lag 0
\* first, over the lags the detector searches
SearchedAutocorr ==
    LET voiced == Compress(user_pitch, [i \in 1..Len(user_pitch) |-> ~isnan(user_pitch[i])])
        n == Len(voiced)
        values == Array([i \in 1..n |-> voiced[i].v])
        smoothed == savgol_filter(values, Min(SavgolWindow, (n \div 2) * 2 + 1))
        residual == Array([i \in 1..n |-> values[i] - smoothed[i]])
        mean == Sum(residual) \div n
        centred == Array([i \in 1..n |-> residual[i] - mean])
    IN Array([k \in 1..(n \div 2) |-> Autocorr(centred, k - 1)])

\* some searched lag is a local maximum of height 0.3 or more of lag 0
PeakFound ==
    LET a == SearchedAutocorr
    IN \E p \in 2..(Len(a) - 1) :
          /\ a[p - 1] < a[p] /\ a[p + 1] < a[p]
          /\ a[1] > 0
          /\ 10 * a[p] >= 3 * a[1]

VoicedSpan ==
    LET voiced == {i \in 1..Len(user_pitch) : ~isnan(user_pitch[i])}
    IN target_time[SetMax(voiced)] - target_time[SetMin(voiced)]

\* C19: the autocorrelation peak search of detect_vibrato is restricted to lags
\* of at most half the residual's length and of at most the number of samples
\* that span 0.5 seconds (by the mean sample interval), for every contour
\* length and sample interval.
C19_SearchWindowCapped ==
    (VibratoChecked /\ VoicedCount >= 100) =>
        \A lag \in 0..(MaxLag(VoicedCount) - 1) :
            /\ 2 * lag <= VoicedCount
            /\ lag * VoicedSpan <= 500 * (VoicedCount - 1)

\* C20: the feedback mapping of every report built by generate_report has the
\* keys pitch_accuracy, stability and overall, the key vibrato exactly when
\* vibrato_metrics.detected is true, and no other key.
C20_FeedbackKeys ==
    Reported =>
        DOMAIN result.value.notes
          = (IF result.value.vibrato_metrics.detected
             THEN {"pitch_accuracy", "stability", "vibrato", "overall"}
             ELSE {"pitch_accuracy", "stability", "overall"})

\* a report with vibrato detected whose feedback carries the vibrato note with
\* the detected frequency, next to the three notes that are always there
C20_Witness ==
    /\ Reported
    /\ result.value.vibrato_metrics.detected
    /\ Cardinality(DOMAIN result.value.notes) = 4
    /\ result.value.notes["vibrato"][2] = Format1(result.value.vibrato_metrics.frequency_hz)

\* C21: feedback text is chosen by threshold bucket of the report's own
\* metrics, lower bounds inclusive: accuracy >= 80 / >= 60 / >= 40 / otherwise,
\* stability >= 0.8 / >= 0.5 / otherwise, clamped total_score >= 90 / >= 75 /
\* >= 60 / otherwise.
C21_FeedbackBuckets ==
    Reported =>
        LET acc == result.value.pitch_metrics.accuracy
            stab == result.value.pitch_metrics.stability
            total == result.value.total_score
            notes == result.value.notes
        IN /\ (acc >= Pts(80)) = (notes["pitch_accuracy"] = <<"Excellent pitch accuracy!">>)
           /\ (acc < Pts(80) /\ acc >= Pts(60))
                = (notes["pitch_accuracy"]
                     = <<"Good pitch accuracy. Try to stay closer to the target.">>)
           /\ (acc < Pts(60) /\ acc >= Pts(40))
                = (notes["pitch_accuracy"]
                     = <<"Fair pitch accuracy. Focus on hitting the right notes.">>)
           /\ (acc < Pts(40))
                = (notes["pitch_accuracy"]
                     = <<"Pitch accuracy needs improvement. Listen carefully to the backing track.">>)
           /\ (10 * stab >= Pts(8)) = (notes["stability"] = <<"Great pitch stability!">>)
           /\ (10 * stab < Pts(8) /\ 2 * stab >= Pts(1))
                = (notes["stability"] = <<"Good stability. Try to reduce pitch wavering.">>)
           /\ (2 * stab < Pts(1))
                = (notes["stability"] = <<"Work on maintaining stable pitch.">>)
           /\ (total >= Pts(90)) = (notes["overall"] = <<"Outstanding performance!">>)
           /\ (total < Pts(90) /\ total >= Pts(75))
                = (notes["overall"] = <<"Great job! Keep it up!">>)
           /\ (total < Pts(75) /\ total >= Pts(60))
                = (notes["overall"] = <<"Good effort! Practice more to improve.">>)
           /\ (total < Pts(60))
                = (notes["overall"] = <<"Keep practicing! You'll improve with time.">>)

\* a report whose stability is exactly 0.5, on the lower bound of its bucket
C21_Witness ==
    /\ Reported
    /\ 2 * result.value.pitch_metrics.stability = Pts(1)
    /\ result.value.notes["stability"] = <<"Good stability. Try to reduce pitch wavering.">>
    /\ result.value.pitch_metrics.accuracy = Pts(50)
    /\ result.value.notes["pitch_accuracy"]
         = <<"Fair pitch accuracy. Focus on hitting the right notes.">>

-----------------------------------------------------------------------------
(* Properties of repeated calls (checked under SpecCalls) *)

Reports == {"generate_report(scorer=None)", "generate_report(scorer)"}

-----------------------------------------------------------------------------
(* Properties of the application (checked under SpecApp) *)

\* C12: in analyze_performance the user contour handed to report generation
\* has the length of the reference contour and is sampled on the reference's
\* time grid, the grid passed as the report's time axis.
C12_HandedOnReferenceGrid ==
    result.op = "analyze_performance" =>
        /\ Len(result.handed.pitch) = Len(target_pitch)
        /\ result.handed.time = target_time

-----------------------------------------------------------------------------
(* Properties of the workflow (checked under SpecWorkflow) *)

\* a session is active from the start_session that created it to the
\* end_session that wrote it
Active == session_manager.current_session # None

\* C24: after any sequence of start_session and end_session calls,
\* end_session returns the completed session when a session is active, and
\* returns None without raising when none is (never started, or ended).
C24_EndSessionReturns ==
    [][EndSession =>
          IF Active
          THEN result' = Call("end_session", Returned(session_manager.current_session))
          ELSE result' = Call("end_session", Returned(None))]_vars

\* the call raised RuntimeError and left the application's session, song,
\* contours and recording as they were
Refused ==
    /\ result'.status = "raised" /\ result'.error = "RuntimeError"
    /\ UNCHANGED <<app, session_manager, heap, storage, inputs>>

\* C25: out of order, the workflow calls raise RuntimeError and change
\* nothing: record_performance with no song selected; analyze_performance with
\* no song selected, with no or empty recorded audio, or with no target pitch;
\* save_performance with no active session or no selected song.
C25_OutOfOrderRefused ==
    [][/\ (app.current_song = None /\ \E audio \in Recordings : RecordPerformance(audio))
             => Refused
       /\ (/\ \/ app.current_song = None
              \/ app.user_audio = NoAudio
              \/ (app.user_audio # NoAudio /\ app.user_audio.empty)
              \/ ~app.target_loaded
           /\ AnalyzeRecording) => Refused
       /\ ((~Active \/ app.current_song = None) /\ SavePerformance) => Refused]_vars

\* C26: analyze_performance only analyses a recording made for the song that
\* is selected: a report is never the score of a recording made for one song
\* against the target of another.
C26_RecordingOfSelectedSong ==
    (result.op = "analyze_performance" /\ result.status = "returned")
        => result.recorded_for = result.scored_against

\* the session object is what its file in storage holds
Written(i) ==
    /\ heap[i].session_id \in DOMAIN storage
    /\ storage[heap[i].session_id] = heap[i]

\* C27: once end_session has been called, no result is appended to the
\* session that was written to storage: save_performance raises RuntimeError
\* until start_session is called again.
C27_NoResultAfterEnd ==
    [][/\ \A i \in DOMAIN heap :
             (Written(i) /\ session_manager.current_session # Ref(i))
                 => heap'[i] = heap[i]
       /\ (~Active /\ SavePerformance) => result'.status = "raised"]_vars

\* C28: every create_session yields a session_id that no session held by the
\* manager and no session file has: no entry of the session map is replaced
\* and no file is overwritten.
C28_FreshSessionId ==
    [][\A username \in Usernames :
           StartSession(username) =>
               /\ SessionId(username, clock) \notin DOMAIN session_manager.sessions
               /\ SessionId(username, clock) \notin DOMAIN storage]_vars

-----------------------------------------------------------------------------
(* Properties of the capture (checked under SpecBuffer and SpecRecorder) *)

\* the samples numbered total - n + 1 .. total: the n most recent of total
MostRecent(total, n) == [i \in 1..n |-> total - n + i]

ReadReturned == result.op = "read" /\ result.status = "returned"

\* C29: once at least N = min(int(duration * sample_rate), max_samples)
\* samples were written, by writes no longer than max_samples each,
\* read(duration) returns the N most recent samples, oldest first, also when
\* they wrap around the end of the ring; write_pos stays in [0, max_samples);
\* and a read sees all or nothing of a write that is under way.
C29_ReadsMostRecent ==
    /\ audio_buffer.write_pos \in 0..(audio_buffer.max_samples - 1)
    /\ (ReadReturned /\ result.completed >= Len(result.value)) =>
           \/ result.value = MostRecent(result.completed, Len(result.value))
           \/ result.value = MostRecent(result.completed + result.under_way,
                                        Len(result.value))

\* a read of the whole ring after more samples were written than it holds,
\* with the most recent samples on both sides of its end
C29_Witness ==
    /\ ReadReturned
    /\ Len(result.value) = audio_buffer.max_samples
    /\ audio_buffer.max_samples >= 3
    /\ result.completed > audio_buffer.max_samples
    /\ result.write_pos > 0
    /\ result.value[1] = result.completed - audio_buffer.max_samples + 1

\* C30: after any sequence of start() and stop(), a start() that fails to
\* open the input stream included, is_recording is true exactly when a stream
\* is held open; start() while recording and stop() while not recording
\* change nothing; and start() on a recorder that holds no stream opens one.
C30_RecordingIffStreamHeld ==
    /\ [](recorder.is_recording <=> recorder.stream # None)
    /\ [][/\ (recorder.is_recording /\ Start) => UNCHANGED recorder
          /\ (~recorder.is_recording /\ Stop) => UNCHANGED recorder
          /\ (recorder.stream = None /\ Start) =>
                 (recorder'.stream # None \/ result'.status = "raised")]_vars

====
